---- MODULE Spec2Model ----
(***************************************************************************)
(* zipfs: a read-only FUSE file system over a ZIP archive (src/zipfs.c).    *)
(*                                                                         *)
(* The four handlers (zipfs_getattr, zipfs_open, zipfs_read,               *)
(* zipfs_readdir) run on the threads of the FUSE framework and share the   *)
(* archive handle `zip`, the catalog `zip_entry_names`, the decode cache   *)
(* `zip_buf` and the mutex `zip_mutex`.  Every handler is a chain of       *)
(* steps of one thread: lock, the archive cursor being opened, the body,   *)
(* unlock.  The build modelled is the default one (assert() enabled).      *)
(*                                                                         *)
(* C strings are sequences of one-character strings without the            *)
(* terminator; C indices are kept 0-based (entry k is entries[k + 1]).     *)
(***************************************************************************)
EXTENDS Integers, Sequences, FiniteSets, TLC

(***************************************************************************)
(* Bounds of the model.                                                    *)
(***************************************************************************)
\* number of concurrent FUSE threads in Spec
NumThreads == 2
\* entries per archive in SpecDir
MaxEntries == 2
\* read offsets are 0..MaxOffset, read sizes 0..MaxSize
MaxOffset == 4
MaxSize == 2

(***************************************************************************)
(* Program constants.                                                      *)
(***************************************************************************)
\* #define DEFAULT_MIN_BUF_SIZE (4 * 1024 * 1024), in units of 2 MiB: the
\* entry sizes of the archives below are in the same unit and lie on both
\* sides of it.
DEFAULT_MIN_BUF_SIZE == 2
min_buf_size == DEFAULT_MIN_BUF_SIZE
MAX_ZIP_ENTRIES == 65535
\* <errno.h>
ENOENT == 2
ENOMEM == 12
EACCES == 13
ENOTDIR == 20
EISDIR == 21
\* <fcntl.h>
O_RDONLY == 0
O_WRONLY == 1
O_RDWR == 2
O_ACCMODE == 3

S_IFDIR_0755 == "S_IFDIR|0755"
S_IFREG_0444 == "S_IFREG|0444"
\* st_mode after memset(stbuf, 0, ...)
MODE_ZERO == "0"

NULL == << >>
\* a byte of a heap block that was never written
JUNK == << -1, -1 >>

Min(x, y) == IF x < y THEN x ELSE y
Max(x, y) == IF x > y THEN x ELSE y

(***************************************************************************)
(* C string helpers.                                                       *)
(***************************************************************************)
\* s[k] for a 0-based k <= strlen(s); the terminator reads as "\\0"
CharAt(s, k) == IF k < Len(s) THEN s[k + 1] ELSE "\\0"

\* strncmp(pre, str, strlen(pre)) == 0: the comparison stops at the first
\* difference, which is at the terminator of str at the latest
starts_with(pre, str) ==
    \A k \in 0..(Len(pre) - 1) : CharAt(str, k) = pre[k + 1]

\* strchr(s, '/'): 0-based position of the first '/', or -1 for NULL
strchr_slash(s) ==
    IF \E k \in 1..Len(s) : s[k] = "/"
    THEN (CHOOSE k \in 1..Len(s) : s[k] = "/" /\ \A j \in 1..(k - 1) : s[j] # "/") - 1
    ELSE -1

\* s + n
Skip(s, n) == SubSeq(s, n + 1, Len(s))

\* the C string that starts at s: the characters before the first "\\0"
CStr(s) ==
    IF \E k \in 1..Len(s) : s[k] = "\\0"
    THEN SubSeq(s, 1, (CHOOSE k \in 1..Len(s) :
                          s[k] = "\\0" /\ \A j \in 1..(k - 1) : s[j] # "\\0") - 1)
    ELSE s

\* s[k] = c for a 0-based k
PutChar(s, k, c) == [s EXCEPT ![k + 1] = c]

(***************************************************************************)
(* The archive library (zip.h).  An archive is a sequence of entries       *)
(* [name, isdir, size, fault]; fault is "none", "open" (the entry cannot   *)
(* be opened) or "read" (the entry opens but its data cannot be decoded).  *)
(* The handle has one cursor: cur is the index of the open entry or -1.    *)
(***************************************************************************)
\* the decoded content of entry k: byte j is tagged with its entry
Content(entries, k) == [j \in 1..entries[k + 1].size |-> << k, j - 1 >>]

zip_total_entries(entries) == Len(entries)

\* index of the entry called name, -1 when there is none
LocateFile(entries, name) ==
    IF \E k \in 1..Len(entries) : entries[k].name = name
    THEN (CHOOSE k \in 1..Len(entries) : entries[k].name = name) - 1
    ELSE -1

\* zip_entry_open(zip, name): the index of the cursor it opens, -1 on failure
zip_entry_open(entries, name) ==
    LET k == LocateFile(entries, name)
    IN IF k >= 0 /\ entries[k + 1].fault # "open" THEN k ELSE -1

\* zip_entry_openbyindex(zip, index)
zip_entry_openbyindex(entries, index) ==
    IF index >= 0 /\ index < Len(entries) /\ entries[index + 1].fault # "open"
    THEN index ELSE -1

\* With no entry open (cur = -1) the queries return the library's error
\* code, which C reads as "true" in a condition and which is no size.
zip_entry_isdir(entries, cur) == IF cur >= 0 THEN entries[cur + 1].isdir ELSE TRUE
zip_entry_size(entries, cur) == IF cur >= 0 THEN entries[cur + 1].size ELSE 0
zip_entry_index(entries, cur) == cur
zip_entry_name(entries, cur) == entries[cur + 1].name

\* zip_entry_noallocread(zip, buf, bufsize): the buffer after the call and
\* the return value
zip_entry_noallocread(entries, cur, data, bufsize) ==
    IF cur < 0 \/ entries[cur + 1].fault = "read" \/ bufsize < entries[cur + 1].size
    THEN [rc |-> -1, data |-> data]
    ELSE [rc |-> 0,
          data |-> [j \in 1..Len(data) |->
                      IF j <= entries[cur + 1].size
                      THEN Content(entries, cur)[j] ELSE data[j]]]

(***************************************************************************)
(* State.                                                                  *)
(***************************************************************************)
VARIABLES
    zip,              \* the archive handle: [entries, cur]
    zip_entry_names,  \* the catalog, a NULL-terminated array of names
    name_blocks,      \* the heap blocks of the names: [size, used] in bytes
    zipfs_options,    \* what fuse_opt_parse stored: [show_help, min_buf_size]
    zip_buf,          \* the decode cache: [index, data, buf_size, entry_size]
    zip_mutex,        \* 0 when free, else the thread that holds it
    aborted,          \* TRUE once a failed assert() has ended the process
    pc,               \* where each thread is in its handler
    call,             \* the arguments of the handler a thread runs
    loc,              \* the handler's local variables
    out               \* what the handler hands back: ret and the buffers

vars == << zip, zip_entry_names, name_blocks, zipfs_options, zip_buf, zip_mutex,
          aborted, pc, call, loc, out >>

\* what main sets up before fuse_main and no handler touches
at_mount == << name_blocks, zipfs_options >>

Threads == 1..NumThreads

Str1(a) == << a >>
Str2(a, b) == << a, b >>
Str3(a, b, c) == << a, b, c >>
Str5(a, b, c, d, e) == << a, b, c, d, e >>

File(name, size) == [name |-> name, isdir |-> FALSE, size |-> size, fault |-> "none"]
Dir(name) == [name |-> name, isdir |-> TRUE, size |-> 0, fault |-> "none"]
Faulty(e, fault) == [e EXCEPT !.fault = fault]

\* the virtual path of an entry name, and the root
VPath(name) == << "/" >> \o name
ROOT == << "/" >>

(***************************************************************************)
(* zipfs_read_all_entry_names: the catalog holds the names of the first    *)
(* MAX_ZIP_ENTRIES entries, in archive order; the static array is zeroed,  *)
(* so the slot after the last name is NULL.                                *)
(***************************************************************************)
zipfs_read_all_entry_names(entries) ==
    [k \in 1..Min(zip_total_entries(entries), MAX_ZIP_ENTRIES) |-> entries[k].name]

\* the number of names the loops "i < MAX_ZIP_ENTRIES && names[i] != NULL" visit
NumNames(names) == Min(Len(names), MAX_ZIP_ENTRIES)

\* entry_names[i] = malloc(strlen(name)): the bytes the block has
AllocSize(name) == Len(name)

\* strcpy(entry_names[i], name): the characters and the terminator
BytesStored(name) == Len(name) + 1

\* the block of one name: what was asked of malloc and what strcpy wrote
NameBlock(name) == [size |-> AllocSize(name), used |-> BytesStored(name)]

\* static struct zipfs_options: zeroed, min_buf_size is what --min-buf=%zu gave
NoOptions == [show_help |-> 0, min_buf_size |-> 0]

(***************************************************************************)
(* The archives and requests of Spec: two threads, files on both sides of  *)
(* min_buf_size, a directory with and without an entry of its own, and an  *)
(* archive with a damaged entry.                                           *)
(***************************************************************************)
ArchiveSound ==
    << File(Str1("a"), 3),
       File(Str1("b"), 1),
       Dir(Str1("d")),
       File(Str5("d", "/", "e", "/", "f"), 1) >>

ArchiveDamaged ==
    << File(Str1("a"), 3),
       Faulty(File(Str1("b"), 1), "read"),
       Faulty(File(Str3("d", "/", "c"), 2), "open") >>

Archives == { ArchiveSound, ArchiveDamaged }

Paths == { VPath(Str1("a")), VPath(Str1("b")), VPath(Str1("d")) }

Offsets == 0..MaxOffset
Sizes == 0..MaxSize
OpenFlags == { O_RDONLY, O_WRONLY, O_RDWR }

NoStat == [st_mode |-> MODE_ZERO, st_size |-> 0]
\* has_fi: fi != NULL; fh, flags: fi->fh and fi->flags as the framework set them
NoCall == [op |-> "none", path |-> ROOT, has_fi |-> FALSE, fh |-> 0, flags |-> 0,
           size |-> 0, offset |-> 0]
\* slashp is the position in the name of the '/' that strchr found
NoLoc == [index |-> -1, dir_index |-> -1, dir_name |-> << >>,
          prev_name |-> << >>, i |-> 0, slashp |-> -1]
\* fh is -1 until the handler writes fi->fh; decoded and alloc record what a
\* read did to the cache: whether it called zip_entry_noallocread, and whether
\* it called "malloc" or "realloc" ("none" when it called neither)
NoOut == [ret |-> 0, buf |-> << >>, stbuf |-> NoStat, filled |-> << >>, fh |-> -1,
          decoded |-> FALSE, alloc |-> "none"]

EmptyBuf == [index |-> 0, data |-> NULL, buf_size |-> 0, entry_size |-> 0]

InitWith(archives) ==
    /\ \E entries \in archives :
         /\ zip = [entries |-> entries, cur |-> -1]
         /\ zip_entry_names = zipfs_read_all_entry_names(entries)
         /\ name_blocks = [k \in 1..Min(zip_total_entries(entries), MAX_ZIP_ENTRIES) |->
                             NameBlock(entries[k].name)]
    /\ zip_buf = EmptyBuf
    /\ zip_mutex = 0
    /\ aborted = FALSE
    /\ pc = [t \in Threads |-> "idle"]
    /\ call = [t \in Threads |-> NoCall]
    /\ loc = [t \in Threads |-> NoLoc]
    /\ out = [t \in Threads |-> NoOut]

(***************************************************************************)
(* The framework calls a handler; the thread then runs it to its return.   *)
(***************************************************************************)
Alive(t) == ~aborted

Invoke(t, c) ==
    /\ Alive(t)
    /\ pc[t] \in { "idle", "done" }
    /\ call' = [call EXCEPT ![t] = c]
    /\ loc' = [loc EXCEPT ![t] = NoLoc]
    /\ out' = [out EXCEPT ![t] = NoOut]
    /\ pc' = [pc EXCEPT ![t] = "lock"]
    /\ UNCHANGED << zip, zip_entry_names, at_mount, zip_buf, zip_mutex, aborted >>

GetattrCalls(paths) == { [NoCall EXCEPT !.op = "getattr", !.path = p] : p \in paths }
OpenCalls(paths, flags) ==
    { [NoCall EXCEPT !.op = "open", !.path = p, !.flags = f] :
        p \in paths, f \in flags }
ReaddirCalls(paths) == { [NoCall EXCEPT !.op = "readdir", !.path = p] : p \in paths }
\* a read with fi == NULL and any path
ReadPathCalls(paths, offsets, sizes) ==
    { [NoCall EXCEPT !.op = "read", !.path = p, !.size = n, !.offset = o] :
        p \in paths, n \in sizes, o \in offsets }
\* a read of a file some thread has opened: the framework passes the path
\* and the fi->fh that zipfs_open returned
ReadFiCalls(offsets, sizes) ==
    { [NoCall EXCEPT !.op = "read", !.path = call[u].path, !.has_fi = TRUE,
                     !.fh = out[u].fh, !.size = n, !.offset = o] :
        u \in { v \in Threads : pc[v] = "done" /\ call[v].op = "open"
                                   /\ out[v].ret = 0 },
        n \in sizes, o \in offsets }

\* a lock that lets every caller in
MutexFreeAlways(m) == TRUE

\* pthread_mutex_lock(&zip_mutex) returns once the mutex is free
MutexFree(m) == m = 0

Lock(t) ==
    /\ Alive(t)
    /\ pc[t] = "lock"
    /\ MutexFree(zip_mutex)
    /\ zip_mutex' = t
    /\ pc' = [pc EXCEPT ![t] = call[t].op \o "_open"]
    /\ UNCHANGED << zip, zip_entry_names, at_mount, zip_buf, aborted, call, loc, out >>

\* a handler that returns without the unlock
MutexKept(m) == m

\* pthread_mutex_unlock(&zip_mutex): the mutex is free again
MutexUnlocked(m) == 0

\* unlock: pthread_mutex_unlock(&zip_mutex); return ret;
Unlock(t) ==
    /\ Alive(t)
    /\ pc[t] = "unlock"
    /\ zip_mutex' = MutexUnlocked(zip_mutex)
    /\ pc' = [pc EXCEPT ![t] = "done"]
    /\ loc' = [loc EXCEPT ![t] = NoLoc]
    /\ UNCHANGED << zip, zip_entry_names, at_mount, zip_buf, aborted, call, out >>

\* cleanup: zip_entry_close(zip); and on to unlock
Cleanup(t) ==
    /\ Alive(t)
    /\ pc[t] = "cleanup"
    /\ zip' = [zip EXCEPT !.cur = -1]
    /\ pc' = [pc EXCEPT ![t] = "unlock"]
    /\ UNCHANGED << zip_entry_names, at_mount, zip_buf, zip_mutex, aborted, call, loc, out >>

(***************************************************************************)
(* zipfs_getattr                                                           *)
(***************************************************************************)
zipfs_entry_getattr(entries, cur, stbuf) ==
    IF zip_entry_isdir(entries, cur)
    THEN [stbuf EXCEPT !.st_mode = S_IFDIR_0755]
    ELSE [stbuf EXCEPT !.st_mode = S_IFREG_0444,
                       !.st_size = zip_entry_size(entries, cur)]

\* the loop without the test of the character after the prefix
ImpliedDirAnyPrefix(names, p) ==
    \E i \in 0..(NumNames(names) - 1) : starts_with(p, names[i + 1])

\* the loop of zipfs_getattr: some name continues path + 1 with a '/'
ImpliedDir(names, p) ==
    \E i \in 0..(NumNames(names) - 1) :
        /\ starts_with(p, names[i + 1])
        /\ CharAt(names[i + 1], Len(p)) = "/"

\* ret and stbuf when the handler needs no entry: the root, and the scan of
\* the catalog after zip_entry_open has failed
GetattrNoEntry(names, path) ==
    IF path = ROOT \/ ImpliedDir(names, Tail(path))
    THEN [ret |-> 0, stbuf |-> [NoStat EXCEPT !.st_mode = S_IFDIR_0755]]
    ELSE [ret |-> -ENOENT, stbuf |-> NoStat]

\* ret and stbuf of the whole handler
GetattrOf(entries, names, path) ==
    LET k == zip_entry_open(entries, Tail(path))
    IN IF path # ROOT /\ k >= 0
       THEN [ret |-> 0, stbuf |-> zipfs_entry_getattr(entries, k, NoStat)]
       ELSE GetattrNoEntry(names, path)

\* up to zip_entry_open; the scan of the catalog when it fails
getattr_open(t) ==
    /\ Alive(t)
    /\ pc[t] = "getattr_open"
    /\ LET path == call[t].path
           k == zip_entry_open(zip.entries, Tail(path))
           r == GetattrNoEntry(zip_entry_names, path)
       IN IF path # ROOT /\ k >= 0
          THEN /\ zip' = [zip EXCEPT !.cur = k]
               /\ pc' = [pc EXCEPT ![t] = "getattr_entry"]
               /\ out' = out
          ELSE /\ out' = [out EXCEPT ![t].ret = r.ret, ![t].stbuf = r.stbuf]
               /\ pc' = [pc EXCEPT ![t] = "unlock"]
               /\ zip' = zip
    /\ UNCHANGED << zip_entry_names, at_mount, zip_buf, zip_mutex, aborted, call, loc >>

\* zipfs_entry_getattr(zip, stbuf); zip_entry_close(zip);
getattr_entry(t) ==
    /\ Alive(t)
    /\ pc[t] = "getattr_entry"
    /\ out' = [out EXCEPT ![t].stbuf = zipfs_entry_getattr(zip.entries, zip.cur, @)]
    /\ zip' = [zip EXCEPT !.cur = -1]
    /\ pc' = [pc EXCEPT ![t] = "unlock"]
    /\ UNCHANGED << zip_entry_names, at_mount, zip_buf, zip_mutex, aborted, call, loc >>

(***************************************************************************)
(* zipfs_open                                                              *)
(***************************************************************************)
AccMode(flags) == flags % (O_ACCMODE + 1)

open_open(t) ==
    /\ Alive(t)
    /\ pc[t] = "open_open"
    /\ LET path == call[t].path
           k == zip_entry_open(zip.entries, Tail(path))
       IN IF path = ROOT \/ k < 0
          THEN /\ out' = [out EXCEPT ![t].ret = -ENOENT]
               /\ pc' = [pc EXCEPT ![t] = "unlock"]
               /\ zip' = zip
          ELSE /\ zip' = [zip EXCEPT !.cur = k]
               /\ pc' = [pc EXCEPT ![t] = "open_entry"]
               /\ out' = out
    /\ UNCHANGED << zip_entry_names, at_mount, zip_buf, zip_mutex, aborted, call, loc >>

\* a handle one past the entry
OpenHandleOffByOne(entries, cur) == zip_entry_index(entries, cur) + 1

\* the value the handler stores in fi->fh
OpenHandle(entries, cur) == zip_entry_index(entries, cur)

\* the entry is not asked whether it is a directory
OpenErrorNoDirCheck(isdir, flags) ==
    IF AccMode(flags) # O_RDONLY THEN -EACCES ELSE 0

\* the checks on the open entry: 0 when the file may be opened
OpenError(isdir, flags) ==
    IF isdir THEN -EISDIR
    ELSE IF AccMode(flags) # O_RDONLY THEN -EACCES
    ELSE 0

\* the error paths leave through unlock, past zip_entry_close
OpenExitSkipsClose(err) == IF err # 0 THEN "unlock" ELSE "cleanup"

\* where zipfs_open goes once the entry is open: "goto cleanup" on both error
\* paths, and the fall-through into cleanup
OpenExit(err) == "cleanup"

open_entry(t) ==
    /\ Alive(t)
    /\ pc[t] = "open_entry"
    /\ LET err == OpenError(zip_entry_isdir(zip.entries, zip.cur), call[t].flags)
       IN /\ out' = IF err # 0
                    THEN [out EXCEPT ![t].ret = err]
                    ELSE [out EXCEPT ![t].fh = OpenHandle(zip.entries, zip.cur)]
          /\ pc' = [pc EXCEPT ![t] = OpenExit(err)]
    /\ UNCHANGED << zip, zip_entry_names, at_mount, zip_buf, zip_mutex, aborted, call, loc >>

(***************************************************************************)
(* zipfs_read                                                              *)
(***************************************************************************)
\* the index the read works on: through the path when fi == NULL, else fi->fh
read_open(t) ==
    /\ Alive(t)
    /\ pc[t] = "read_open"
    /\ LET path == call[t].path
           k == IF call[t].has_fi
                THEN zip_entry_openbyindex(zip.entries, call[t].fh)
                ELSE zip_entry_open(zip.entries, Tail(path))
       IN IF (~call[t].has_fi /\ path = ROOT) \/ k < 0
          THEN /\ out' = [out EXCEPT ![t].ret = -ENOENT]
               /\ pc' = [pc EXCEPT ![t] = "unlock"]
               /\ UNCHANGED << zip, loc >>
          ELSE /\ zip' = [zip EXCEPT !.cur = k]
               /\ loc' = [loc EXCEPT ![t].index =
                            IF call[t].has_fi THEN call[t].fh
                            ELSE zip_entry_index(zip.entries, k)]
               /\ pc' = [pc EXCEPT ![t] = "read_cache"]
               /\ out' = out
    /\ UNCHANGED << zip_entry_names, at_mount, zip_buf, zip_mutex, aborted, call >>

\* malloc(n): a block of n unwritten bytes
malloc(n) == [j \in 1..n |-> JUNK]

\* realloc(data, n): the old bytes up to the smaller size, the rest unwritten
realloc(data, n) == [j \in 1..n |-> IF j <= Len(data) THEN data[j] ELSE JUNK]

\* the buffer is never sized past the minimum
NewBufSizeIsMin(entry_size) == min_buf_size

\* the size the buffer gets for an entry
NewBufSize(entry_size) ==
    IF min_buf_size > entry_size THEN min_buf_size ELSE entry_size

\* the condition under which an allocated buffer is reallocated
NeedsRealloc(buf_size, entry_size) ==
    \/ buf_size < entry_size
    \/ (buf_size > entry_size /\ buf_size > min_buf_size)

\* the buffer is lost when realloc fails: zip_buf.data = realloc(zip_buf.data, n)
ReallocFailedLosesBuf(buf) == [buf EXCEPT !.data = NULL]

\* realloc returned NULL: new_data is a local, zip_buf is as it was
ReallocFailed(buf) == buf

\* whatever the buffer holds is served
CacheHitAnyIndex(buf, index) == buf.data # NULL

\* every read decodes
CacheHitNever(buf, index) == FALSE

\* the cache serves index without decoding
CacheHit(buf, index) == buf.data # NULL /\ buf.index = index

(***************************************************************************)
(* The cache part of zipfs_read for the open entry cur, wanted as index:   *)
(* st is "ok", "nomem" (malloc or realloc returned NULL) or "abort" (the   *)
(* assert on zip_entry_noallocread failed); decoded tells whether          *)
(* zip_entry_noallocread was called and alloc which allocation was.        *)
(***************************************************************************)
LoadBuf(entries, cur, buf, index, alloc_ok) ==
    LET entry_size == zip_entry_size(entries, cur)
        buf_size == NewBufSize(entry_size)
        Decode(b, alloc) ==
            LET r == zip_entry_noallocread(entries, cur, b.data, b.entry_size)
            IN [st |-> IF r.rc # -1 THEN "ok" ELSE "abort",
                buf |-> [b EXCEPT !.data = r.data],
                decoded |-> TRUE, alloc |-> alloc]
    IN IF buf.data = NULL
       THEN IF ~alloc_ok
            THEN [st |-> "nomem", buf |-> buf, decoded |-> FALSE, alloc |-> "malloc"]
            ELSE Decode([index |-> index, data |-> malloc(buf_size),
                         buf_size |-> buf_size, entry_size |-> entry_size],
                        "malloc")
       ELSE IF ~CacheHit(buf, index)
       THEN IF NeedsRealloc(buf.buf_size, entry_size)
            THEN IF ~alloc_ok
                 THEN [st |-> "nomem", buf |-> ReallocFailed(buf),
                       decoded |-> FALSE, alloc |-> "realloc"]
                 ELSE Decode([index |-> index, data |-> realloc(buf.data, buf_size),
                              buf_size |-> buf_size, entry_size |-> entry_size],
                             "realloc")
            ELSE Decode([buf EXCEPT !.entry_size = entry_size, !.index = index],
                        "none")
       ELSE [st |-> "ok", buf |-> buf, decoded |-> FALSE, alloc |-> "none"]

read_cache(t) ==
    /\ Alive(t)
    /\ pc[t] = "read_cache"
    /\ IF zip_entry_isdir(zip.entries, zip.cur)
       THEN /\ out' = [out EXCEPT ![t].ret = -EISDIR]
            /\ pc' = [pc EXCEPT ![t] = "cleanup"]
            /\ UNCHANGED << zip_buf, aborted >>
       ELSE \E alloc_ok \in BOOLEAN :
              LET r == LoadBuf(zip.entries, zip.cur, zip_buf, loc[t].index, alloc_ok)
              IN /\ zip_buf' = r.buf
                 /\ aborted' = (r.st = "abort")
                 /\ out' = [out EXCEPT
                              ![t].ret = IF r.st = "nomem" THEN -ENOMEM ELSE @,
                              ![t].decoded = r.decoded,
                              ![t].alloc = r.alloc]
                 /\ pc' = [pc EXCEPT ![t] =
                             IF r.st = "ok" THEN "read_copy" ELSE "cleanup"]
    /\ UNCHANGED << zip, zip_entry_names, at_mount, zip_mutex, call, loc >>

\* the copy starts at data instead of data + offset
ServeFromStart(buf, offset, size) ==
    IF offset >= buf.entry_size
    THEN [ret |-> 0, bytes |-> << >>]
    ELSE LET n == IF offset + size > buf.entry_size
                  THEN buf.entry_size - offset ELSE size
         IN [ret |-> n, bytes |-> [j \in 1..n |-> buf.data[j]]]

\* the count and the bytes memcpy moves to the caller's buffer
Serve(buf, offset, size) ==
    IF offset >= buf.entry_size
    THEN [ret |-> 0, bytes |-> << >>]
    ELSE LET n == IF offset + size > buf.entry_size
                  THEN buf.entry_size - offset ELSE size
         IN [ret |-> n, bytes |-> [j \in 1..n |-> buf.data[offset + j]]]

read_copy(t) ==
    /\ Alive(t)
    /\ pc[t] = "read_copy"
    /\ LET r == Serve(zip_buf, call[t].offset, call[t].size)
       IN out' = [out EXCEPT ![t].ret = r.ret, ![t].buf = r.bytes]
    /\ pc' = [pc EXCEPT ![t] = "cleanup"]
    /\ UNCHANGED << zip, zip_entry_names, at_mount, zip_buf, zip_mutex, aborted, call, loc >>

(***************************************************************************)
(* zipfs_readdir                                                           *)
(***************************************************************************)
\* strcpy(dir_name, path + 1); strcat(dir_name, "/");
DirName(path) == IF path = ROOT THEN << >> ELSE Tail(path) \o << "/" >>

readdir_open(t) ==
    /\ Alive(t)
    /\ pc[t] = "readdir_open"
    /\ LET path == call[t].path
           k == zip_entry_open(zip.entries, Tail(path))
       IN IF path # ROOT /\ k >= 0
          THEN /\ zip' = [zip EXCEPT !.cur = k]
               /\ pc' = [pc EXCEPT ![t] = "readdir_entry"]
               /\ loc' = loc
          ELSE /\ loc' = [loc EXCEPT ![t].dir_name = DirName(path),
                                     ![t].i = loc[t].dir_index + 1]
               /\ pc' = [pc EXCEPT ![t] = "readdir_loop"]
               /\ zip' = zip
    /\ UNCHANGED << zip_entry_names, at_mount, zip_buf, zip_mutex, aborted, call, out >>

\* the entry of the path itself is open
readdir_entry(t) ==
    /\ Alive(t)
    /\ pc[t] = "readdir_entry"
    /\ IF ~zip_entry_isdir(zip.entries, zip.cur)
       THEN /\ out' = [out EXCEPT ![t].ret = -ENOTDIR]
            /\ pc' = [pc EXCEPT ![t] = "unlock"]
            /\ loc' = loc
       ELSE /\ loc' = [loc EXCEPT
                         ![t].dir_index = zip_entry_index(zip.entries, zip.cur),
                         ![t].dir_name = DirName(call[t].path),
                         ![t].i = zip_entry_index(zip.entries, zip.cur) + 1]
            /\ pc' = [pc EXCEPT ![t] = "readdir_loop"]
            /\ out' = out
    /\ zip' = [zip EXCEPT !.cur = -1]
    /\ UNCHANGED << zip_entry_names, at_mount, zip_buf, zip_mutex, aborted, call >>

\* what the loop does when a name does not start with dir_name
SkipOrStop(dir_index) == IF dir_index = -1 THEN "continue" ELSE "break"

\* the child is filled unless it repeats the previous one
IsNewChild(prev_name, local_name) == prev_name # local_name

(***************************************************************************)
(* One pass of the loop body for the name at index fr.i, up to the write   *)
(* of the terminator into the name when strchr has found a '/'.  fr holds  *)
(* the loop's variables [i, dir_index, dir_name, prev_name, slashp], the   *)
(* entries handed to filler so far and st: "run", "end" after a break,     *)
(* "abort" after the failed assert on zip_entry_open, "slash" when the     *)
(* name is about to be cut at slashp.                                      *)
(***************************************************************************)
ReaddirIter(entries, names, fr) ==
    LET name == names[fr.i + 1]
        local_name == Skip(name, Len(fr.dir_name))
        slashp == strchr_slash(local_name)
        k == zip_entry_open(entries, name)
        next == [fr EXCEPT !.i = fr.i + 1]
    IN IF ~starts_with(fr.dir_name, name)
       THEN IF SkipOrStop(fr.dir_index) = "continue" THEN next
            ELSE [fr EXCEPT !.st = "end"]
       ELSE IF slashp = -1
       THEN IF IsNewChild(fr.prev_name, local_name)
            THEN IF k < 0
                 THEN [fr EXCEPT !.prev_name = local_name, !.st = "abort"]
                 ELSE [next EXCEPT
                         !.prev_name = local_name,
                         !.filled = Append(@,
                            [name |-> local_name,
                             st |-> zipfs_entry_getattr(entries, k, NoStat)])]
            ELSE next
       ELSE [fr EXCEPT !.slashp = Len(fr.dir_name) + slashp, !.st = "slash"]

(***************************************************************************)
(* The rest of the pass once *slashp = '\0' has cut the name in the        *)
(* catalog: local_name now ends at the cut; the child it names is filled   *)
(* as a directory unless it repeats the previous one.                      *)
(***************************************************************************)
ReaddirSlash(names, fr) ==
    LET name == names[fr.i + 1]
        local_name == CStr(Skip(name, Len(fr.dir_name)))
        next == [fr EXCEPT !.i = fr.i + 1, !.slashp = -1]
    IN IF IsNewChild(fr.prev_name, local_name)
       THEN [next EXCEPT
               !.prev_name = local_name,
               !.filled = Append(@,
                  [name |-> local_name,
                   st |-> [NoStat EXCEPT !.st_mode = S_IFDIR_0755]])]
       ELSE next

Frame(l, filled) ==
    [i |-> l.i, dir_index |-> l.dir_index, dir_name |-> l.dir_name,
     prev_name |-> l.prev_name, slashp |-> l.slashp, filled |-> filled,
     st |-> "run"]

readdir_loop(t) ==
    /\ Alive(t)
    /\ pc[t] = "readdir_loop"
    /\ IF loc[t].i < NumNames(zip_entry_names)
       THEN LET fr == ReaddirIter(zip.entries, zip_entry_names,
                                  Frame(loc[t], out[t].filled))
            IN /\ loc' = [loc EXCEPT ![t].i = fr.i, ![t].prev_name = fr.prev_name,
                                     ![t].slashp = fr.slashp]
               /\ out' = [out EXCEPT ![t].filled = fr.filled]
               /\ aborted' = (fr.st = "abort")
               \* *slashp = '\0';
               /\ zip_entry_names' =
                     IF fr.st = "slash"
                     THEN [zip_entry_names EXCEPT
                             ![fr.i + 1] = PutChar(@, fr.slashp, "\\0")]
                     ELSE zip_entry_names
               /\ pc' = [pc EXCEPT ![t] =
                           IF fr.st = "end" THEN "unlock"
                           ELSE IF fr.st = "slash" THEN "readdir_slash"
                           ELSE "readdir_loop"]
       ELSE /\ pc' = [pc EXCEPT ![t] = "unlock"]
            /\ UNCHANGED << zip_entry_names, loc, out, aborted >>
    /\ UNCHANGED << zip, at_mount, zip_buf, zip_mutex, call >>

\* strcmp, strcpy and filler on the cut name, then *slashp = '/';
readdir_slash(t) ==
    /\ Alive(t)
    /\ pc[t] = "readdir_slash"
    /\ LET fr == ReaddirSlash(zip_entry_names, Frame(loc[t], out[t].filled))
       IN /\ loc' = [loc EXCEPT ![t].i = fr.i, ![t].prev_name = fr.prev_name,
                                ![t].slashp = fr.slashp]
          /\ out' = [out EXCEPT ![t].filled = fr.filled]
          /\ zip_entry_names' =
                [zip_entry_names EXCEPT
                   ![loc[t].i + 1] = PutChar(@, loc[t].slashp, "/")]
    /\ pc' = [pc EXCEPT ![t] = "readdir_loop"]
    /\ UNCHANGED << zip, at_mount, zip_buf, zip_mutex, aborted, call >>

(***************************************************************************)
(* main: one pass of the loop of zipfs_read_all_entry_names, for the entry *)
(* at index loc[t].i.  The assert on zip_entry_openbyindex ends the        *)
(* process when the entry does not open; a failed malloc makes the         *)
(* function return -1 and main return 1.  strcpy writes BytesStored(name)  *)
(* bytes into a block of AllocSize(name) bytes: when that is more than the *)
(* block has, the byte past its end is absorbed by the allocator or        *)
(* breaks the heap, and with it the process.                               *)
(***************************************************************************)
read_entry_name(t) ==
    /\ Alive(t)
    /\ pc[t] = "mount"
    /\ LET i == loc[t].i
           n == zip_total_entries(zip.entries)
           k == zip_entry_openbyindex(zip.entries, i)
       IN IF i < n /\ i < MAX_ZIP_ENTRIES
          THEN IF k < 0
               THEN /\ aborted' = TRUE
                    /\ UNCHANGED << zip_entry_names, name_blocks, pc, loc, out >>
               ELSE \E alloc_ok \in BOOLEAN :
                      IF ~alloc_ok
                      THEN /\ out' = [out EXCEPT ![t].ret = -1]
                           /\ pc' = [pc EXCEPT ![t] = "exit"]
                           /\ UNCHANGED << zip_entry_names, name_blocks, loc,
                                           aborted >>
                      ELSE LET name == zip_entry_name(zip.entries, k)
                               block == NameBlock(name)
                           IN /\ zip_entry_names' = Append(zip_entry_names, name)
                              /\ name_blocks' = Append(name_blocks, block)
                              /\ loc' = [loc EXCEPT ![t].i = i + 1]
                              /\ IF block.used > block.size
                                 THEN aborted' \in BOOLEAN
                                 ELSE aborted' = aborted
                              /\ UNCHANGED << pc, out >>
          ELSE /\ pc' = [pc EXCEPT ![t] = "idle"]
               /\ loc' = [loc EXCEPT ![t] = NoLoc]
               /\ UNCHANGED << zip_entry_names, name_blocks, aborted, out >>
    /\ UNCHANGED << zip, zipfs_options, zip_buf, zip_mutex, call >>

(***************************************************************************)
(* The specifications.                                                     *)
(***************************************************************************)
Step(t) ==
    \/ Lock(t)
    \/ getattr_open(t)
    \/ getattr_entry(t)
    \/ open_open(t)
    \/ open_entry(t)
    \/ read_open(t)
    \/ read_cache(t)
    \/ read_copy(t)
    \/ readdir_open(t)
    \/ readdir_entry(t)
    \/ readdir_loop(t)
    \/ readdir_slash(t)
    \/ Cleanup(t)
    \/ Unlock(t)

\* the handlers a thread may be asked to run, over the given arguments
Calls(paths, flags, offsets, sizes) ==
    GetattrCalls(paths) \cup OpenCalls(paths, flags) \cup ReaddirCalls(paths)
        \cup ReadPathCalls(paths, offsets, sizes) \cup ReadFiCalls(offsets, sizes)

(***************************************************************************)
(* Spec: the handlers on concurrent threads.                               *)
(***************************************************************************)
Init == InitWith(Archives) /\ zipfs_options = NoOptions

Next ==
    \E t \in Threads :
        \/ \E c \in Calls(Paths, OpenFlags, { 0, 2 }, { 2 }) :
              Invoke(t, c)
        \/ Step(t)

Spec == Init /\ [][Next]_vars

(***************************************************************************)
(* SpecLive: the threads of Spec under a fair scheduler.  Every thread     *)
(* that can take a step of its handler eventually takes one, and a thread  *)
(* that waits in pthread_mutex_lock while the mutex is free again and      *)
(* again eventually gets it.                                               *)
(***************************************************************************)
NextLive ==
    \E t \in Threads :
        \/ \E c \in Calls(Paths, { O_RDONLY }, { 0 }, { 2 }) :
              Invoke(t, c)
        \/ Step(t)

Fairness == \A t \in Threads : WF_vars(Step(t)) /\ SF_vars(Lock(t))

SpecLive == Init /\ [][NextLive]_vars /\ Fairness

(***************************************************************************)
(* SpecRead: one thread, files of every size up to MaxOffset - 1 read at   *)
(* every offset and size.                                                  *)
(***************************************************************************)
ReadArchive ==
    << File(Str1("a"), 3),
       File(Str1("b"), 1),
       File(Str1("c"), 2),
       File(Str1("z"), 0),
       Dir(Str1("d")),
       File(Str5("d", "/", "e", "/", "f"), 1) >>

ReadPaths == { VPath(Str1("a")), VPath(Str1("b")), VPath(Str1("c")),
               VPath(Str1("z")), VPath(Str1("d")) }

\* --min-buf absent, below and above DEFAULT_MIN_BUF_SIZE
MinBufOptions == { 0, 1, 3 }

InitRead ==
    /\ InitWith({ ReadArchive })
    /\ zipfs_options \in { [NoOptions EXCEPT !.min_buf_size = v] : v \in MinBufOptions }

NextRead ==
    \/ \E c \in Calls(ReadPaths, { O_RDONLY }, Offsets, Sizes) : Invoke(1, c)
    \/ Step(1)

SpecRead == InitRead /\ [][NextRead]_vars

(***************************************************************************)
(* SpecDir: one thread, every archive of up to MaxEntries entries with     *)
(* distinct names out of DirNames, in every order.  A name that ends in    *)
(* '/' is a directory entry; "a" and "a/a" occur both as a file and as an  *)
(* entry flagged as directory.  The files hold as many bytes as their      *)
(* names have characters.                                                  *)
(***************************************************************************)
DirNames ==
    { Str1("a"), Str1("b"), Str2("a", "b"), Str2("a", "/"),
      Str3("a", "/", "a"), Str3("a", "/", "b"),
      Str5("a", "/", "a", "/", "a"), Str5("a", "/", "a", "/", "b") }

DirEntries ==
    { File(n, Len(n)) : n \in { m \in DirNames : m[Len(m)] # "/" } }
        \cup { Dir(n) : n \in { m \in DirNames : m[Len(m)] = "/" } }
        \cup { Dir(Str1("a")), Dir(Str3("a", "/", "a")) }

RECURSIVE ArchivesUpTo(_)
ArchivesUpTo(n) ==
    IF n = 0 THEN { << >> }
    ELSE LET shorter == ArchivesUpTo(n - 1)
         IN shorter \cup
            UNION { { Append(es, e) :
                        e \in { d \in DirEntries :
                                  \A k \in 1..Len(es) : es[k].name # d.name } } :
                    es \in { x \in shorter : Len(x) = n - 1 } }

DirArchives == ArchivesUpTo(MaxEntries)

DirPaths == { ROOT, VPath(Str1("a")), VPath(Str1("b")), VPath(Str2("a", "b")),
              VPath(Str3("a", "/", "a")), VPath(Str3("a", "/", "b")) }

InitDir == InitWith(DirArchives) /\ zipfs_options = NoOptions

NextDir ==
    \/ \E c \in Calls(DirPaths, { O_RDONLY }, { 0 }, { MaxSize }) : Invoke(1, c)
    \/ Step(1)

SpecDir == InitDir /\ [][NextDir]_vars

(***************************************************************************)
(* SpecMount: main builds the catalog, for every archive of SpecDir and    *)
(* for the archive with an entry that does not open.                       *)
(***************************************************************************)
MountArchives == DirArchives \cup { ArchiveDamaged }

InitMount ==
    /\ \E entries \in MountArchives : zip = [entries |-> entries, cur |-> -1]
    /\ zip_entry_names = << >>
    /\ name_blocks = << >>
    /\ zipfs_options = NoOptions
    /\ zip_buf = EmptyBuf
    /\ zip_mutex = 0
    /\ aborted = FALSE
    /\ pc = [t \in Threads |-> IF t = 1 THEN "mount" ELSE "idle"]
    /\ call = [t \in Threads |-> NoCall]
    /\ loc = [t \in Threads |-> NoLoc]
    /\ out = [t \in Threads |-> NoOut]

NextMount == read_entry_name(1)

SpecMount == InitMount /\ [][NextMount]_vars

(***************************************************************************)
(* What the claims speak of.                                               *)
(***************************************************************************)
Returned(t, op) == pc[t] = "done" /\ call[t].op = op

\* the entry a read call addresses: the one its handle names, or the one
\* called path + 1
ReadTarget(c) ==
    IF c.has_fi THEN c.fh ELSE LocateFile(zip.entries, Tail(c.path))

\* bytes [o, o + n) of entry i
Bytes(i, o, n) == [j \in 1..n |-> << i, o + j - 1 >>]

InRead(t) == call[t].op = "read" /\ pc[t] \in { "read_cache", "read_copy", "cleanup" }

(***************************************************************************)
(* C1: whatever the interleaving of the threads, a read that returns       *)
(* n > 0 bytes for entry i at offset o returns bytes [o, o + n) of entry   *)
(* i, none of them a byte of the entry another thread reads.               *)
(***************************************************************************)
C1_ReadsAreSerialized ==
    \A t \in Threads :
        (Returned(t, "read") /\ out[t].ret > 0) =>
            out[t].buf = Bytes(ReadTarget(call[t]), call[t].offset, out[t].ret)

\* one thread has its bytes of one entry while another thread, inside its
\* own read, has replaced the cache with a different entry
C1_Witness ==
    \E t, u \in Threads :
        /\ t # u
        /\ Returned(t, "read") /\ out[t].ret > 0
        /\ InRead(u) /\ pc[u] = "read_copy"
        /\ ReadTarget(call[u]) # ReadTarget(call[t])
        /\ zip_buf.index = ReadTarget(call[u])

\* an entry that opens and is no directory
IsFileEntry(i) ==
    /\ i >= 0 /\ i < Len(zip.entries)
    /\ ~zip.entries[i + 1].isdir
    /\ zip.entries[i + 1].fault # "open"

(***************************************************************************)
(* C3: a read of a file entry of size L at offset o for s bytes returns    *)
(* min(s, L - o) bytes, those at [o, o + min(s, L - o)), when o < L, and   *)
(* zero bytes without an error when o >= L, whatever the cache held.       *)
(***************************************************************************)
C3_ReadClipsToEntry ==
    \A t \in Threads :
        LET i == ReadTarget(call[t])
            L == zip.entries[i + 1].size
            o == call[t].offset
            n == Min(call[t].size, L - o)
        IN (Returned(t, "read") /\ IsFileEntry(i) /\ out[t].ret # -ENOMEM) =>
              IF o < L
              THEN out[t].ret = n /\ out[t].buf = Bytes(i, o, n)
              ELSE out[t].ret = 0 /\ out[t].buf = << >>

\* a read past the middle of an entry that asked for more than is left
C3_Witness ==
    \E t \in Threads :
        /\ Returned(t, "read") /\ IsFileEntry(ReadTarget(call[t]))
        /\ call[t].offset > 0
        /\ out[t].ret > 0 /\ out[t].ret < call[t].size

(***************************************************************************)
(* C4: a read served through the cache returns what the same read returns  *)
(* on a freshly mounted file system, whose cache is empty and which        *)
(* therefore decodes the entry for this read.                              *)
(***************************************************************************)
FreshRead(i, offset, size) ==
    Serve(LoadBuf(zip.entries, i, EmptyBuf, i, TRUE).buf, offset, size)

C4_CacheIsTransparent ==
    \A t \in Threads :
        LET i == ReadTarget(call[t])
            fresh == FreshRead(i, call[t].offset, call[t].size)
        IN (Returned(t, "read") /\ IsFileEntry(i) /\ out[t].ret >= 0) =>
              /\ out[t].ret = fresh.ret
              /\ out[t].buf = fresh.bytes

\* the entry was decoded over another entry: the buffer still ends in a
\* byte of that one
C4_Witness ==
    \E t \in Threads :
        /\ Returned(t, "read") /\ IsFileEntry(ReadTarget(call[t]))
        /\ out[t].ret > 0
        /\ zip_buf.index = ReadTarget(call[t])
        /\ \E j \in 1..Len(zip_buf.data) :
              zip_buf.data[j] # JUNK /\ zip_buf.data[j][1] # zip_buf.index

(***************************************************************************)
(* C9: zipfs_open of a path that resolves to a file fails with EACCES and  *)
(* sets no handle unless the access mode is O_RDONLY; with O_RDONLY it     *)
(* succeeds and fi->fh is the catalog index of the entry, and a read with  *)
(* that handle returns the count and the bytes of the same read by path.   *)
(***************************************************************************)
ResolvesToFile(path) ==
    path # ROOT /\ IsFileEntry(LocateFile(zip.entries, Tail(path)))

C9_OpenHandsOutTheIndex ==
    /\ \A t \in Threads :
          (Returned(t, "open") /\ ResolvesToFile(call[t].path)) =>
             IF call[t].flags # O_RDONLY
             THEN out[t].ret = -EACCES /\ out[t].fh = -1
             ELSE /\ out[t].ret = 0
                  /\ out[t].fh \in 0..(Len(zip_entry_names) - 1)
                  /\ zip_entry_names[out[t].fh + 1] = Tail(call[t].path)
    /\ \A t, u \in Threads :
          ( /\ Returned(t, "read") /\ call[t].has_fi
            /\ Returned(u, "read") /\ ~call[u].has_fi
            /\ call[u].path = call[t].path
            /\ call[u].offset = call[t].offset /\ call[u].size = call[t].size
            /\ out[t].ret # -ENOMEM /\ out[u].ret # -ENOMEM ) =>
             out[t].ret = out[u].ret /\ out[t].buf = out[u].buf

\* the same bytes were read once with the handle and once by path
C9_Witness ==
    \E t, u \in Threads :
        /\ Returned(t, "read") /\ call[t].has_fi
        /\ Returned(u, "read") /\ ~call[u].has_fi
        /\ call[u].path = call[t].path
        /\ call[u].offset = call[t].offset /\ call[u].size = call[t].size
        /\ call[t].offset > 0
        /\ out[t].ret > 0 /\ out[u].ret > 0

(***************************************************************************)
(* C10: a failure while one request is served (the entry does not decode,  *)
(* the buffer cannot be allocated, an entry does not open during the       *)
(* listing) ends that request with an error code and never the process.    *)
(***************************************************************************)
C10_FailuresDoNotEndTheProcess == ~aborted

(***************************************************************************)
(* The Path Resolver of the specification, on the catalog.                 *)
(***************************************************************************)
BeginsWith(str, pre) == Len(str) >= Len(pre) /\ SubSeq(str, 1, Len(pre)) = pre

CatalogIndex(p) ==
    IF \E k \in 1..Len(zip_entry_names) : zip_entry_names[k] = p
    THEN (CHOOSE k \in 1..Len(zip_entry_names) : zip_entry_names[k] = p) - 1
    ELSE -1

\* "root", "file", "xdir" (an exact match flagged as directory), "idir" (no
\* exact match, some entry begins with path + "/") or "none"
Classify(path) ==
    LET p == Tail(path)
        k == CatalogIndex(p)
    IN IF path = ROOT THEN "root"
       ELSE IF k >= 0 THEN (IF zip.entries[k + 1].isdir THEN "xdir" ELSE "file")
       ELSE IF \E j \in 1..Len(zip_entry_names) :
                  BeginsWith(zip_entry_names[j], p \o << "/" >>)
       THEN "idir"
       ELSE "none"

IsDirClass(path) == Classify(path) \in { "root", "xdir", "idir" }

DirStat == [st_mode |-> S_IFDIR_0755, st_size |-> 0]
FileStat(k) == [st_mode |-> S_IFREG_0444, st_size |-> zip.entries[k + 1].size]

(***************************************************************************)
(* C6: zipfs_getattr classifies every path as the Path Resolver does: the  *)
(* root, an exact match flagged as directory and a path that some entry    *)
(* continues with "/" are directories of size 0, an exact match that is    *)
(* not flagged is a regular file of the entry's size, and any other path,  *)
(* also one that is a prefix of a name without a "/" after it, is ENOENT.  *)
(***************************************************************************)
C6_GetattrClassifies ==
    \A t \in Threads :
        Returned(t, "getattr") =>
            LET kind == Classify(call[t].path)
            IN IF kind \in { "root", "xdir", "idir" }
               THEN out[t].ret = 0 /\ out[t].stbuf = DirStat
               ELSE IF kind = "file"
               THEN /\ out[t].ret = 0
                    /\ out[t].stbuf = FileStat(CatalogIndex(Tail(call[t].path)))
               ELSE out[t].ret = -ENOENT

\* not found, although a name of the catalog starts with the characters of
\* the path
C6_Witness ==
    \E t \in Threads :
        /\ Returned(t, "getattr")
        /\ out[t].ret = -ENOENT
        /\ \E j \in 1..Len(zip_entry_names) :
              BeginsWith(zip_entry_names[j], Tail(call[t].path))

(***************************************************************************)
(* C5 as amended: zipfs_open, and zipfs_read by path, fail with EISDIR on  *)
(* a path that exactly matches an entry flagged as directory; on the root  *)
(* and on an implicit directory they fail with ENOENT, as they do on a     *)
(* path that matches no entry and is no prefix of any.                     *)
(***************************************************************************)
ByPath(t) ==
    \/ Returned(t, "open")
    \/ Returned(t, "read") /\ ~call[t].has_fi

C5_EntriesAreEISDIR ==
    \A t \in Threads :
        ByPath(t) =>
            LET kind == Classify(call[t].path)
            IN /\ kind = "xdir" => out[t].ret = -EISDIR
               /\ kind \in { "root", "idir", "none" } => out[t].ret = -ENOENT

\* an open of an implicit directory has returned ENOENT
C5_Witness ==
    \E t \in Threads :
        /\ Returned(t, "open")
        /\ Classify(call[t].path) = "idir"
        /\ out[t].ret = -ENOENT

(***************************************************************************)
(* C5 as claimed: zipfs_open, and zipfs_read by path, fail with EISDIR on  *)
(* every path that resolves to a directory (root, explicit, implicit),     *)
(* and zipfs_open fails with ENOENT on a path that matches nothing.        *)
(***************************************************************************)
C5_DirectoriesAreEISDIR ==
    \A t \in Threads :
        /\ (ByPath(t) /\ IsDirClass(call[t].path)) => out[t].ret = -EISDIR
        /\ (Returned(t, "open") /\ Classify(call[t].path) = "none") =>
              out[t].ret = -ENOENT

(***************************************************************************)
(* C8: zipfs_readdir of a path that is neither the root, nor an exact      *)
(* match, nor continued with "/" by any entry returns ENOENT, and of a     *)
(* path that resolves to a file ENOTDIR; in both cases nothing is filled.  *)
(***************************************************************************)
C8_ListingErrors ==
    \A t \in Threads :
        Returned(t, "readdir") =>
            LET kind == Classify(call[t].path)
            IN /\ kind = "none" => out[t].ret = -ENOENT /\ out[t].filled = << >>
               /\ kind = "file" => out[t].ret = -ENOTDIR /\ out[t].filled = << >>

(***************************************************************************)
(* The directory-listing derivation of the specification.                  *)
(***************************************************************************)
\* entries that share a prefix ending in "/" are contiguous in the catalog
PrefixContiguous ==
    \A i, j, k \in 1..Len(zip_entry_names) :
        (i < j /\ j < k) =>
            \A m \in 1..Len(zip_entry_names[i]) :
                LET p == SubSeq(zip_entry_names[i], 1, m)
                IN (zip_entry_names[i][m] = "/" /\ BeginsWith(zip_entry_names[k], p))
                      => BeginsWith(zip_entry_names[j], p)

\* prefix + "/", nothing for the root
ListPrefix(path) == IF path = ROOT THEN << >> ELSE Tail(path) \o << "/" >>

\* the remainders of the entries below the directory
Remainders(path) ==
    { SubSeq(n, Len(ListPrefix(path)) + 1, Len(n)) :
        n \in { zip_entry_names[k] : k \in
                  { j \in 1..Len(zip_entry_names) :
                      /\ BeginsWith(zip_entry_names[j], ListPrefix(path))
                      /\ Len(zip_entry_names[j]) > Len(ListPrefix(path)) } } }

HasSeparator(r) == \E m \in 1..Len(r) : r[m] = "/"

FirstSegment(r) ==
    IF HasSeparator(r)
    THEN SubSeq(r, 1, (CHOOSE m \in 1..Len(r) :
                          r[m] = "/" /\ \A j \in 1..(m - 1) : r[j] # "/") - 1)
    ELSE r

ExpectedNames(path) == { FirstSegment(r) : r \in Remainders(path) }

\* the attributes a child may be listed with: those of the entry of that
\* name, a directory's when deeper entries imply it
ExpectedStats(path, name) ==
    { IF zip.entries[k].isdir THEN DirStat ELSE FileStat(k - 1) :
        k \in { j \in 1..Len(zip_entry_names) :
                  zip_entry_names[j] = ListPrefix(path) \o name } }
      \cup { DirStat : r \in { x \in Remainders(path) :
                                 BeginsWith(x, name \o << "/" >>) } }

(***************************************************************************)
(* C2: on a catalog whose entries sharing a path prefix are contiguous,    *)
(* zipfs_readdir of a path that resolves to a directory fills each         *)
(* immediate child exactly once and nothing else: the names are the        *)
(* distinct first segments of the remainders of the entries that begin     *)
(* with prefix + "/", a file for a remainder without separator and a       *)
(* directory otherwise.                                                    *)
(***************************************************************************)
C2_ListingIsExact ==
    \A t \in Threads :
        (Returned(t, "readdir") /\ PrefixContiguous /\ IsDirClass(call[t].path)) =>
            LET filled == out[t].filled
            IN /\ out[t].ret = 0
               /\ \A j, k \in 1..Len(filled) :
                     j # k => filled[j].name # filled[k].name
               /\ { filled[j].name : j \in 1..Len(filled) }
                     = ExpectedNames(call[t].path)
               /\ \A j \in 1..Len(filled) :
                     filled[j].st \in ExpectedStats(call[t].path, filled[j].name)

(***************************************************************************)
(* C7: no path is both file and directory: what zipfs_getattr reports for  *)
(* a path agrees with the kind under which the listing of its parent       *)
(* fills its name, and with the outcome of zipfs_open and zipfs_readdir    *)
(* on the path.                                                            *)
(***************************************************************************)
AttrOf(path) == GetattrOf(zip.entries, zip_entry_names, path)

ChildPath(path, name) ==
    IF path = ROOT THEN path \o name ELSE path \o << "/" >> \o name

C7_KindsAgree ==
    \A t \in Threads :
        /\ Returned(t, "readdir") =>
              /\ out[t].ret = 0 =>
                    /\ AttrOf(call[t].path).ret = 0
                    /\ AttrOf(call[t].path).stbuf.st_mode = S_IFDIR_0755
              /\ out[t].ret = -ENOTDIR =>
                    AttrOf(call[t].path).stbuf.st_mode = S_IFREG_0444
              /\ \A j \in 1..Len(out[t].filled) :
                    LET f == out[t].filled[j]
                    IN AttrOf(ChildPath(call[t].path, f.name)).stbuf.st_mode
                          = f.st.st_mode
        /\ Returned(t, "open") =>
              /\ out[t].ret = 0 =>
                    AttrOf(call[t].path).stbuf.st_mode = S_IFREG_0444
              /\ AttrOf(call[t].path).stbuf.st_mode = S_IFDIR_0755 =>
                    out[t].ret # 0

(***************************************************************************)
(* C11: a thread is between pthread_mutex_lock and pthread_mutex_unlock    *)
(* exactly while it is inside a handler body, where every access to the    *)
(* archive handle, the catalog and the cache is made; at most one thread   *)
(* is there, and a handler that has returned, with a result or an error,   *)
(* does not hold the lock.                                                 *)
(***************************************************************************)
InBody(t) == pc[t] \notin { "idle", "lock", "done" }

C11_LockAroundHandlers ==
    /\ \A t \in Threads : InBody(t) <=> zip_mutex = t
    /\ Cardinality({ t \in Threads : InBody(t) }) <= 1
    /\ \A t \in Threads : pc[t] = "done" => zip_mutex # t

\* a handler is about to leave with an error while another thread waits for
\* the lock
C11_Witness ==
    \E t, u \in Threads :
        /\ t # u
        /\ pc[t] = "unlock" /\ out[t].ret < 0 /\ zip_mutex = t
        /\ pc[u] = "lock"

(***************************************************************************)
(* C12: whenever the cache is not empty and names index i with logical     *)
(* size n, n is the size of entry i and the first n bytes of the buffer    *)
(* are the decoded content of entry i, also after a read whose decode or   *)
(* allocation failed.                                                      *)
(***************************************************************************)
C12_CacheHoldsItsEntry ==
    zip_buf.data # NULL =>
        /\ zip_buf.index \in 0..(Len(zip.entries) - 1)
        /\ zip_buf.entry_size = zip.entries[zip_buf.index + 1].size
        /\ SubSeq(zip_buf.data, 1, zip_buf.entry_size)
              = Content(zip.entries, zip_buf.index)

(***************************************************************************)
(* C13: the cache is one slot: empty, or one buffer that names one entry   *)
(* and claims that entry's size as its logical size; the capacity of the   *)
(* buffer is the size of its block and never smaller than the logical      *)
(* size, after any reads, also those whose allocation failed.              *)
(***************************************************************************)
C13_CapacityCoversSize ==
    IF zip_buf.data = NULL
    THEN zip_buf = EmptyBuf
    ELSE /\ zip_buf.index \in 0..(Len(zip.entries) - 1)
         /\ zip_buf.entry_size = zip.entries[zip_buf.index + 1].size
         /\ zip_buf.buf_size = Len(zip_buf.data)
         /\ zip_buf.buf_size >= zip_buf.entry_size

\* a realloc has failed and the cache still holds the entry it held, in a
\* buffer larger than the entry
C13_Witness ==
    \E t \in Threads :
        /\ Returned(t, "read")
        /\ out[t].ret = -ENOMEM /\ out[t].alloc = "realloc"
        /\ zip_buf.data # NULL
        /\ zip_buf.buf_size > zip_buf.entry_size

(***************************************************************************)
(* The minimum buffer size the mount was configured with: the value of     *)
(* --min-buf, the default when the option was not given.                   *)
(***************************************************************************)
ConfiguredMin ==
    IF zipfs_options.min_buf_size = 0
    THEN DEFAULT_MIN_BUF_SIZE ELSE zipfs_options.min_buf_size

\* the step of thread t in which a read has decoded the open entry
Decodes(t) ==
    /\ pc[t] = "read_cache" /\ pc'[t] = "read_copy"
    /\ out'[t].decoded

(***************************************************************************)
(* C14: a decode of an entry of size s changes the capacity of an          *)
(* existing buffer only when the capacity is below s or above both s and   *)
(* the configured minimum; after the decode the capacity is the larger of  *)
(* the configured minimum and s; and once the buffer exists, the decode    *)
(* of an entry no larger than the configured minimum reallocates nothing.  *)
(***************************************************************************)
C14_ResizePolicy ==
    [][\A t \in Threads :
         Decodes(t) =>
            LET s == zip_entry_size(zip.entries, zip.cur)
                cap == zip_buf.buf_size
            IN /\ (zip_buf.data # NULL /\ zip_buf'.buf_size # cap) =>
                     (cap < s \/ (cap > s /\ cap > ConfiguredMin))
               /\ zip_buf'.buf_size = Max(ConfiguredMin, s)
               /\ (zip_buf.data # NULL /\ s <= ConfiguredMin) =>
                     out'[t].alloc = "none"]_vars

\* the cache holds the entry that the read of thread t works on
HoldsIndex(t) == zip_buf.data # NULL /\ zip_buf.index = loc[t].index

(***************************************************************************)
(* C15: a read of index i that finds the cache holding i calls neither     *)
(* the decoder nor malloc or realloc and leaves the cache as it is; a read *)
(* that does not find it there decodes; and every read that gets past the  *)
(* cache leaves it holding i.  So of consecutive successful reads of one   *)
(* entry, at whatever offsets and from whatever threads, only the first    *)
(* decodes.                                                                *)
(***************************************************************************)
C15_OneDecodePerRun ==
    [][\A t \in Threads :
         (pc[t] = "read_cache" /\ pc'[t] # "read_cache"
            /\ ~zip_entry_isdir(zip.entries, zip.cur)) =>
            /\ HoldsIndex(t) =>
                  /\ pc'[t] = "read_copy"
                  /\ ~out'[t].decoded /\ out'[t].alloc = "none"
                  /\ zip_buf' = zip_buf
            /\ (~HoldsIndex(t) /\ pc'[t] = "read_copy") => out'[t].decoded
            /\ pc'[t] = "read_copy" =>
                  (zip_buf'.data # NULL /\ zip_buf'.index = loc[t].index)]_vars

\* two threads have read the same entry one after the other: the first
\* decoded it, the second, at another offset, did not
C15_Witness ==
    \E t, u \in Threads :
        /\ t # u
        /\ Returned(t, "read") /\ Returned(u, "read")
        /\ ReadTarget(call[t]) = ReadTarget(call[u])
        /\ call[t].offset # call[u].offset
        /\ out[u].ret > 0 /\ out[u].decoded
        /\ out[t].ret > 0 /\ ~out[t].decoded
        /\ zip_buf.index = ReadTarget(call[t])

(***************************************************************************)
(* C16: the cursor of the archive is opened, used and closed in turn: it   *)
(* is open only for the thread that holds the lock and only between that   *)
(* thread's zip_entry_open and zip_entry_close; a handler opens an entry   *)
(* only while no cursor is open; the entry is asked whether it is a        *)
(* directory, for its size, its index and its data only while the cursor   *)
(* is open; and the cursor is closed when the handler unlocks and returns, *)
(* on the error paths as well.                                             *)
(***************************************************************************)
CursorOpen == zip.cur >= 0

\* the handler is about to call zip_entry_open or zip_entry_openbyindex
AboutToOpen(t) ==
    pc[t] \in { "getattr_open", "open_open", "read_open", "readdir_open",
                "readdir_loop", "readdir_slash" }

\* the handler is about to query the open entry
AboutToQuery(t) ==
    pc[t] \in { "getattr_entry", "open_entry", "read_cache", "readdir_entry" }

C16_CursorProtocol ==
    /\ CursorOpen =>
          /\ zip_mutex \in Threads
          /\ pc[zip_mutex] \in { "getattr_entry", "open_entry", "read_cache",
                                  "read_copy", "readdir_entry", "cleanup" }
    /\ \A t \in Threads :
          /\ AboutToOpen(t) => ~CursorOpen
          /\ AboutToQuery(t) => CursorOpen
          /\ pc[t] \in { "unlock", "done" } => ~CursorOpen \/ zip_mutex \notin { 0, t }

\* an error path has closed the entry it had opened and is about to unlock
C16_Witness ==
    \E t \in Threads :
        /\ pc[t] = "unlock" /\ zip_mutex = t
        /\ out[t].ret \in { -EISDIR, -EACCES, -ENOMEM }
        /\ ~CursorOpen

(***************************************************************************)
(* C17: whenever some thread does not hold the lock, and so might query    *)
(* the catalog without it, every name of the catalog is the one captured   *)
(* at mount; in particular when a handler has returned.                    *)
(***************************************************************************)
C17_CatalogIsImmutable ==
    \A t \in Threads :
        zip_mutex # t => zip_entry_names = zipfs_read_all_entry_names(zip.entries)

(***************************************************************************)
(* C19: the cache changes only in the step in which a read that did not    *)
(* find its entry in the cache calls the decoder: zipfs_getattr,           *)
(* zipfs_open and zipfs_readdir, a read that ends before the decode (not   *)
(* found, a directory, malloc or realloc failed) and a read served from    *)
(* the cache leave index, data, buf_size and entry_size as they were.      *)
(***************************************************************************)
C19_OnlyDecodingReadsChangeTheCache ==
    [][zip_buf' # zip_buf =>
         \E t \in Threads :
             /\ call[t].op = "read" /\ pc[t] = "read_cache"
             /\ ~HoldsIndex(t)
             /\ out'[t].decoded]_vars

\* a read has ended in a failed realloc and the cache still holds another
\* entry
C19_Witness ==
    \E t \in Threads :
        /\ Returned(t, "read")
        /\ out[t].ret = -ENOMEM /\ out[t].alloc = "realloc" /\ ~out[t].decoded
        /\ zip_buf.data # NULL
        /\ zip_buf.index # ReadTarget(call[t])
        /\ C12_CacheHoldsItsEntry

(***************************************************************************)
(* C18: every handler that has been called gets the lock, runs to its end  *)
(* and returns, whatever the other threads do; and a thread that does not  *)
(* hold the lock does nothing but be called or wait for it, so that the    *)
(* archive and the cache are used by the thread inside a library call      *)
(* alone.                                                                  *)
(***************************************************************************)
C18_EveryCallReturns ==
    /\ \A t \in Threads : (pc[t] = "lock") ~> (pc[t] = "done")
    /\ [][\A t \in Threads :
            (zip_mutex # t /\ pc'[t] # pc[t]) =>
                /\ pc[t] \in { "idle", "done", "lock" }
                /\ pc[t] # "lock" => (zip' = zip /\ zip_buf' = zip_buf)]_vars

(***************************************************************************)
(* C20: every name of the catalog is stored within the block allocated     *)
(* for it, the terminator included, and when main has built the catalog    *)
(* it holds the names of the first min(total entries, MAX_ZIP_ENTRIES)     *)
(* entries in the order of the archive.                                    *)
(***************************************************************************)
C20_NamesFitTheirBlocks ==
    /\ \A k \in 1..Len(name_blocks) : name_blocks[k].used <= name_blocks[k].size
    /\ pc[1] = "idle" =>
          /\ Len(zip_entry_names)
                = Min(zip_total_entries(zip.entries), MAX_ZIP_ENTRIES)
          /\ \A k \in 1..Len(zip_entry_names) :
                zip_entry_names[k] = zip.entries[k].name

====
